---- MODULE Spec2Model ----
(***************************************************************************)
(* Model of the supermath rules core: the Player record (score, level,     *)
(* streaks, per-operation statistics), the BadgeSystem streak evaluator    *)
(* and the Achievement progress check.                                     *)
(*                                                                         *)
(* Player.recordAnswer and addScore are translated from the Player class;  *)
(* BadgeSystem and Achievement from models/BadgeSystem.js.                 *)
(* The badge fields and methods of Player that BadgeSystem calls (badges,  *)
(* consecutiveCorrect, hasBadge, awardBadge, resetBadgeProgress) are not   *)
(* part of the Player source at hand; they follow the data model document  *)
(* and the BadgeSystem tests.                                              *)
(***************************************************************************)
EXTENDS Integers, Sequences, FiniteSets, TLC

VARIABLES
    player,      \* the Player object
    now,         \* logical clock standing for new Date(): one tick per call
    lastCall,    \* the call that produced the current state, with its result
    emitted,     \* events put on the event bus by that call
    maxStreak,   \* history: the largest value player.streak has taken
    storage,     \* the 'player' entry the StorageService keeps in localStorage
    currentQuestion, \* the Game's current Question with its attempts and, as
                 \* history, the answers recorded for it
    log,         \* history: the achievementUnlocked events emitted so far
    gameHistory  \* the 'gameHistory' entry in localStorage

vars == <<player, now, lastCall, emitted, maxStreak, storage,
          currentQuestion, log, gameHistory>>

----------------------------------------------------------------------------
(* Bounds *)

MaxCalls == 4          \* calls per behaviour of Spec
MaxBadgeCalls == 4     \* calls per behaviour of BadgeSpec
MaxLoopSteps == 17     \* iterations per behaviour of LoopSpec
MaxStreakArg == 20     \* largest externally supplied currentStreak
MaxAchCalls == 5       \* calls per behaviour of AchSpec
StartCorrect == 23     \* correct supermode answers given before AchSpec and GameSpec start
MaxGameSteps == 4      \* calls per behaviour of GameSpec
MaxTenAnswers == 12    \* answers per behaviour of ScenarioSpec
MaxAttemptSteps == 5   \* calls per behaviour of AttemptSpec
StartSaved == 98       \* sessions in the game history when HistorySpec starts
MaxHistoryCalls == 4   \* calls per behaviour of HistorySpec
RandomSteps == 100     \* Math.random() is taken as r / RandomSteps, r in 0..RandomSteps-1

----------------------------------------------------------------------------
(* Inputs *)

Null == "null"

\* categories handed to recordAnswer: a default one and one the constructor
\* does not create
OperationInputs == {"addition", "detective"}

\* categories asked of getAccuracy: played, created on demand, never created
AccuracyInputs == OperationInputs \cup {"history"}

PointInputs == {0, 10, 120}

DeltaInputs == {-10, 0, 50}

\* ids handed to addAchievement: a defined one and a free-form one
AchievementInputs == {"super_bronze", "test_achievement"}

\* partial settings handed to updateSettings
SettingsInputs == {[difficulty |-> "hard"], [musicEnabled |-> FALSE]}

\* streak values handed to the BadgeSystem: around each threshold, and a jump
StreakInputs == {2, 3, 5, 10, 15, MaxStreakArg}

\* streak values passed to the two badge queries
QueryInputs == {0, 1, 4, 9, 14} \cup StreakInputs

----------------------------------------------------------------------------
(* Player *)

ZeroStats == [score |-> 0, questionsAnswered |-> 0, correctAnswers |-> 0]

DefaultOperations ==
    {"addition", "subtraction", "multiplication", "division", "supermode"}

BadgeTypes == {"badge1", "bronze", "silver", "gold"}

\* badges of a new player: nothing earned, lastEarned null (0 = no time)
DefaultBadges == [b \in BadgeTypes |-> [earned |-> FALSE, count |-> 0, lastEarned |-> 0]]

DefaultSettings ==
    [difficulty |-> "medium", soundEnabled |-> TRUE, animationSpeed |-> "normal"]

\* 'player_' + Date.now() + '_' + random suffix
generateId(t) == <<"player", t>>

\* new Player() at time t
NewPlayer(t) ==
    [ id                 |-> generateId(t),
      totalScore         |-> 0,
      operationStats     |-> [o \in DefaultOperations |-> ZeroStats],
      achievements       |-> <<>>,
      settings           |-> DefaultSettings,
      createdAt          |-> t,
      lastPlayed         |-> t,
      level              |-> 1,
      streak             |-> 0,
      bestStreak         |-> 0,
      consecutiveCorrect |-> 0,
      badges             |-> DefaultBadges ]

\* operationStats[operation], created zeroed when missing
withOperation_NoInit(stats, operation) == stats

withOperation(stats, operation) ==
    IF operation \in DOMAIN stats
    THEN stats
    ELSE [o \in (DOMAIN stats) \cup {operation} |->
             IF o = operation THEN ZeroStats ELSE stats[o]]

levelUp_Hundred(totalScore, level) ==
    IF totalScore >= level * 100 THEN level + 1 ELSE level

\* if (this.totalScore >= this.level * 50) this.level++  (one step per call)
levelUp(totalScore, level) ==
    IF totalScore >= level * 50 THEN level + 1 ELSE level

statsAfter_NoCategoryScore(old, isCorrect, points) ==
    IF isCorrect
    THEN [score |-> old.score,
          questionsAnswered |-> old.questionsAnswered + 1,
          correctAnswers |-> old.correctAnswers + 1]
    ELSE [old EXCEPT !.questionsAnswered = @ + 1]

\* the category entry after one answer
statsAfter(old, isCorrect, points) ==
    IF isCorrect
    THEN [score |-> old.score + points,
          questionsAnswered |-> old.questionsAnswered + 1,
          correctAnswers |-> old.correctAnswers + 1]
    ELSE [old EXCEPT !.questionsAnswered = @ + 1]

bestStreakAfter_Stale(streak, bestStreak) ==
    IF streak - 1 > bestStreak THEN streak - 1 ELSE bestStreak

\* if (this.streak > this.bestStreak) this.bestStreak = this.streak
bestStreakAfter(streak, bestStreak) ==
    IF streak > bestStreak THEN streak ELSE bestStreak

recordAnswer_ScoreOnMiss(p, operation, isCorrect, points, t) ==
    LET stats0 == withOperation(p.operationStats, operation)
        total  == p.totalScore + points
        streak == IF isCorrect THEN p.streak + 1 ELSE 0
        best   == IF isCorrect THEN bestStreakAfter(streak, p.bestStreak) ELSE p.bestStreak
    IN  [p EXCEPT !.operationStats =
                      [stats0 EXCEPT ![operation] = statsAfter(@, isCorrect, points)],
                  !.totalScore = total,
                  !.streak = streak,
                  !.bestStreak = best,
                  !.lastPlayed = t,
                  !.level = levelUp(total, p.level)]

recordAnswer(p, operation, isCorrect, points, t) ==
    LET stats0 == withOperation(p.operationStats, operation)
        total  == IF isCorrect THEN p.totalScore + points ELSE p.totalScore
        streak == IF isCorrect THEN p.streak + 1 ELSE 0
        best   == IF isCorrect THEN bestStreakAfter(streak, p.bestStreak) ELSE p.bestStreak
    IN  [p EXCEPT !.operationStats =
                      [stats0 EXCEPT ![operation] = statsAfter(@, isCorrect, points)],
                  !.totalScore = total,
                  !.streak = streak,
                  !.bestStreak = best,
                  !.lastPlayed = t,
                  !.level = levelUp(total, p.level)]

\* the consecutive-correct counter BadgeSystem reads: it follows the streak
trackConsecutiveCorrect(p, isCorrect) ==
    [p EXCEPT !.consecutiveCorrect = IF isCorrect THEN @ + 1 ELSE 0]

\* Math.round(n / d) for n >= 0 and d > 0: the nearest integer, halves up
round(n, d) == (2 * n + d) \div (2 * d)

getAccuracy_Truncate(p, operation) ==
    IF operation \notin DOMAIN p.operationStats THEN 0
    ELSE LET stats == p.operationStats[operation] IN
         IF stats.questionsAnswered = 0 THEN 0
         ELSE (stats.correctAnswers * 100 * 100) \div stats.questionsAnswered

\* getAccuracy(operation), in hundredths of a percent: the value before the
\* final division by 100, so 6667 stands for 66.67
getAccuracy(p, operation) ==
    IF operation \notin DOMAIN p.operationStats THEN 0
    ELSE LET stats == p.operationStats[operation] IN
         IF stats.questionsAnswered = 0 THEN 0
         ELSE round(stats.correctAnswers * 100 * 100, stats.questionsAnswered)

addScore_NoCheck(p, points) ==
    [threw |-> FALSE, player |-> [p EXCEPT !.totalScore = @ + points]]

\* addScore: throws on a negative amount, otherwise adds to totalScore only
addScore(p, points) ==
    IF points < 0
    THEN [threw |-> TRUE, player |-> p]
    ELSE [threw |-> FALSE, player |-> [p EXCEPT !.totalScore = @ + points]]

Includes(seq, x) == \E i \in 1..Len(seq) : seq[i] = x

hasAchievement(p, achievementId) == Includes(p.achievements, achievementId)

addAchievement_NoCheck(p, achievementId) ==
    [added |-> TRUE, player |-> [p EXCEPT !.achievements = Append(@, achievementId)]]

addAchievement_Replace(p, achievementId) ==
    IF ~Includes(p.achievements, achievementId)
    THEN [added |-> TRUE, player |-> [p EXCEPT !.achievements = <<achievementId>>]]
    ELSE [added |-> FALSE, player |-> p]

\* addAchievement: pushes the id and returns true unless it is already there
addAchievement(p, achievementId) ==
    IF ~Includes(p.achievements, achievementId)
    THEN [added |-> TRUE, player |-> [p EXCEPT !.achievements = Append(@, achievementId)]]
    ELSE [added |-> FALSE, player |-> p]

\* { ...this.settings, ...newSettings }
updateSettings(p, newSettings) ==
    [p EXCEPT !.settings = newSettings @@ p.settings]

----------------------------------------------------------------------------
(* Player: snapshot and restore *)

Has(data, field) == field \in DOMAIN data

\* data.field || dflt for a numeric field: missing and 0 both give dflt
NumberOr(data, field, dflt) ==
    IF Has(data, field) /\ data[field] # 0 THEN data[field] ELSE dflt

\* data.field || dflt for an object, array or non-empty string field
ValueOr(data, field, dflt) ==
    IF Has(data, field) THEN data[field] ELSE dflt

toJSON_NoBestStreak(p) ==
    [ id             |-> p.id,
      totalScore     |-> p.totalScore,
      operationStats |-> p.operationStats,
      achievements   |-> p.achievements,
      settings       |-> p.settings,
      createdAt      |-> p.createdAt,
      lastPlayed     |-> p.lastPlayed,
      level          |-> p.level,
      streak         |-> p.streak ]

toJSON(p) ==
    [ id             |-> p.id,
      totalScore     |-> p.totalScore,
      operationStats |-> p.operationStats,
      achievements   |-> p.achievements,
      settings       |-> p.settings,
      createdAt      |-> p.createdAt,
      lastPlayed     |-> p.lastPlayed,
      level          |-> p.level,
      streak         |-> p.streak,
      bestStreak     |-> p.bestStreak ]

\* new Player(data) at time t
fromJSON(data, t) ==
    [ id             |-> ValueOr(data, "id", generateId(t)),
      totalScore     |-> NumberOr(data, "totalScore", 0),
      operationStats |-> ValueOr(data, "operationStats",
                                 [o \in DefaultOperations |-> ZeroStats]),
      achievements   |-> ValueOr(data, "achievements", <<>>),
      settings       |-> ValueOr(data, "settings", DefaultSettings),
      createdAt      |-> ValueOr(data, "createdAt", t),
      lastPlayed     |-> ValueOr(data, "lastPlayed", t),
      level          |-> NumberOr(data, "level", 1),
      streak         |-> NumberOr(data, "streak", 0),
      bestStreak     |-> NumberOr(data, "bestStreak", 0) ]

\* the badge fields travel with the snapshot like the others
badgeFieldsToJSON(p) ==
    [badges |-> p.badges, consecutiveCorrect |-> p.consecutiveCorrect]

badgeFieldsFromJSON(data) ==
    [ badges             |-> ValueOr(data, "badges", DefaultBadges),
      consecutiveCorrect |-> NumberOr(data, "consecutiveCorrect", 0) ]

\* the snapshot of a player, and the player restored from a snapshot
playerToJSON(p) == toJSON(p) @@ badgeFieldsToJSON(p)

playerFromJSON(data, t) == fromJSON(data, t) @@ badgeFieldsFromJSON(data)

----------------------------------------------------------------------------
(* Player badge methods, as the data model describes them *)

hasBadge(p, badgeType) == p.badges[badgeType].earned

\* earned = true, count + 1, lastEarned = current time
awardBadge(p, badgeType, t) ==
    [p EXCEPT !.badges[badgeType] =
        [earned |-> TRUE, count |-> @.count + 1, lastEarned |-> t]]

resetBadgeProgress_ClearBadges(p) ==
    [p EXCEPT !.consecutiveCorrect = 0, !.badges = DefaultBadges]

\* the progress towards the next badge starts over; earned badges are kept
resetBadgeProgress(p) ==
    [p EXCEPT !.consecutiveCorrect = 0]

----------------------------------------------------------------------------
(* BadgeSystem *)

BADGE_THRESHOLDS == [badge1 |-> 3, bronze |-> 5, silver |-> 10, gold |-> 15]

BADGE_NAMES ==
    [badge1 |-> "First Streak", bronze |-> "Bronze Streak",
     silver |-> "Silver Streak", gold |-> "Gold Streak"]

BADGE_DESCRIPTIONS ==
    [badge1 |-> "3 correct answers in a row!", bronze |-> "5 correct answers in a row!",
     silver |-> "10 correct answers in a row!", gold |-> "15 correct answers in a row!"]

badgesToCheck == <<"badge1", "bronze", "silver", "gold">>

Event(type, badgeType, streak) ==
    [type |-> type, badgeType |-> badgeType, streak |-> streak,
     name |-> IF badgeType \in BadgeTypes THEN BADGE_NAMES[badgeType] ELSE Null,
     description |-> IF badgeType \in BadgeTypes THEN BADGE_DESCRIPTIONS[badgeType] ELSE Null]

CheckResult(p, newBadge, events) ==
    [player |-> p, newBadge |-> newBadge, emitted |-> events]

RECURSIVE checkLoop_NoBreak(_, _, _, _)
checkLoop_NoBreak(r, currentStreak, i, t) ==
    IF i > Len(badgesToCheck) THEN r
    ELSE LET badgeType == badgesToCheck[i] IN
         IF currentStreak >= BADGE_THRESHOLDS[badgeType] /\ ~hasBadge(r.player, badgeType)
         THEN checkLoop_NoBreak(
                  CheckResult(awardBadge(r.player, badgeType, t), badgeType,
                              Append(r.emitted, Event("badgeEarned", badgeType, currentStreak))),
                  currentStreak, i + 1, t)
         ELSE checkLoop_NoBreak(r, currentStreak, i + 1, t)

checkAndAwardBadges_NoBreak(p, currentStreak, t) ==
    checkLoop_NoBreak(CheckResult(p, Null, <<>>), currentStreak, 1, t)

RECURSIVE checkLoop_Strict(_, _, _, _)
checkLoop_Strict(p, currentStreak, i, t) ==
    IF i > Len(badgesToCheck) THEN CheckResult(p, Null, <<>>)
    ELSE LET badgeType == badgesToCheck[i] IN
         IF currentStreak > BADGE_THRESHOLDS[badgeType] /\ ~hasBadge(p, badgeType)
         THEN CheckResult(awardBadge(p, badgeType, t), badgeType,
                          <<Event("badgeEarned", badgeType, currentStreak)>>)
         ELSE checkLoop_Strict(p, currentStreak, i + 1, t)

checkAndAwardBadges_Strict(p, currentStreak, t) ==
    checkLoop_Strict(p, currentStreak, 1, t)

RECURSIVE checkLoop_NoHasBadge(_, _, _, _)
checkLoop_NoHasBadge(p, currentStreak, i, t) ==
    IF i > Len(badgesToCheck) THEN CheckResult(p, Null, <<>>)
    ELSE LET badgeType == badgesToCheck[i] IN
         IF currentStreak >= BADGE_THRESHOLDS[badgeType]
         THEN CheckResult(awardBadge(p, badgeType, t), badgeType,
                          <<Event("badgeEarned", badgeType, currentStreak)>>)
         ELSE checkLoop_NoHasBadge(p, currentStreak, i + 1, t)

checkAndAwardBadges_NoHasBadge(p, currentStreak, t) ==
    checkLoop_NoHasBadge(p, currentStreak, 1, t)

\* the for loop of checkAndAwardBadges from its i-th badge on: the first badge
\* whose threshold is reached and that is not earned is awarded, then break
RECURSIVE checkLoop(_, _, _, _)
checkLoop(p, currentStreak, i, t) ==
    IF i > Len(badgesToCheck) THEN CheckResult(p, Null, <<>>)
    ELSE LET badgeType == badgesToCheck[i] IN
         IF currentStreak >= BADGE_THRESHOLDS[badgeType] /\ ~hasBadge(p, badgeType)
         THEN CheckResult(awardBadge(p, badgeType, t), badgeType,
                          <<Event("badgeEarned", badgeType, currentStreak)>>)
         ELSE checkLoop(p, currentStreak, i + 1, t)

checkAndAwardBadges(p, currentStreak, t) ==
    checkLoop(p, currentStreak, 1, t)

\* Object.keys(thresholds) sorted by ascending threshold
badgesAscending ==
    CHOOSE seq \in [1..Cardinality(BadgeTypes) -> BadgeTypes] :
        \A i, j \in DOMAIN seq :
            i < j => BADGE_THRESHOLDS[seq[i]] < BADGE_THRESHOLDS[seq[j]]

\* Object.keys(thresholds) sorted by descending threshold
badgesDescending ==
    [i \in DOMAIN badgesAscending |->
        badgesAscending[Len(badgesAscending) + 1 - i]]

RECURSIVE badgeForStreakLoop(_, _, _)
badgeForStreakLoop(badges, streak, i) ==
    IF i > Len(badges) THEN Null
    ELSE IF streak >= BADGE_THRESHOLDS[badges[i]] THEN badges[i]
    ELSE badgeForStreakLoop(badges, streak, i + 1)

getBadgeForStreak_Ascending(streak) ==
    badgeForStreakLoop(badgesAscending, streak, 1)

getBadgeForStreak(streak) ==
    badgeForStreakLoop(badgesDescending, streak, 1)

Target(badgeType, threshold, remaining, name) ==
    [badgeType |-> badgeType, threshold |-> threshold,
     remaining |-> remaining, name |-> name]

\* getNextBadgeTarget returning null
NoTarget == Target(Null, 0, 0, Null)

RECURSIVE nextTargetLoop(_, _, _)
nextTargetLoop(p, currentStreak, i) ==
    IF i > Len(badgesAscending) THEN NoTarget
    ELSE LET badge == badgesAscending[i]
             threshold == BADGE_THRESHOLDS[badge]
         IN  IF currentStreak < threshold /\ ~hasBadge(p, badge)
             THEN Target(badge, threshold, threshold - currentStreak, BADGE_NAMES[badge])
             ELSE nextTargetLoop(p, currentStreak, i + 1)

getNextBadgeTarget(p, currentStreak) ==
    nextTargetLoop(p, currentStreak, 1)


----------------------------------------------------------------------------
(* Achievement *)

AchievementDef(id, category, requirement, points) ==
    [id |-> id, category |-> category, requirement |-> requirement, points |-> points]

ACHIEVEMENT_DEFINITIONS ==
    { AchievementDef("add_bronze", "addition", 50, 50),
      AchievementDef("add_silver", "addition", 200, 200),
      AchievementDef("add_gold", "addition", 500, 500),
      AchievementDef("sub_bronze", "subtraction", 50, 50),
      AchievementDef("sub_silver", "subtraction", 200, 200),
      AchievementDef("sub_gold", "subtraction", 500, 500),
      AchievementDef("mul_bronze", "multiplication", 50, 50),
      AchievementDef("mul_silver", "multiplication", 200, 200),
      AchievementDef("mul_gold", "multiplication", 500, 500),
      AchievementDef("div_bronze", "division", 50, 50),
      AchievementDef("div_silver", "division", 200, 200),
      AchievementDef("div_gold", "division", 500, 500),
      AchievementDef("super_bronze", "supermode", 25, 100),
      AchievementDef("super_silver", "supermode", 100, 300),
      AchievementDef("super_gold", "supermode", 250, 750),
      AchievementDef("streak_10", "streak", 10, 50),
      AchievementDef("streak_25", "streak", 25, 150),
      AchievementDef("streak_50", "streak", 50, 300) }

\* checkProgress: the category's entry in operationStats is looked up first,
\* and 0 is returned when there is none, whatever the category
checkProgress(achievement, p) ==
    IF achievement.category \notin DOMAIN p.operationStats THEN 0
    ELSE CASE achievement.category \in DefaultOperations ->
                  p.operationStats[achievement.category].correctAnswers
           [] achievement.category = "overall" -> p.totalScore
           [] achievement.category = "streak" -> p.bestStreak
           [] OTHER -> 0

isUnlocked_Strict(achievement, p) ==
    checkProgress(achievement, p) > achievement.requirement

isUnlocked(achievement, p) ==
    checkProgress(achievement, p) >= achievement.requirement

----------------------------------------------------------------------------
(* Game: achievements *)

\* the order in which loadAchievements fills the achievements map
achievementIds ==
    << "add_bronze", "add_silver", "add_gold",
       "sub_bronze", "sub_silver", "sub_gold",
       "mul_bronze", "mul_silver", "mul_gold",
       "div_bronze", "div_silver", "div_gold",
       "super_bronze", "super_silver", "super_gold",
       "streak_10", "streak_25", "streak_50" >>

AchievementById(id) == CHOOSE a \in ACHIEVEMENT_DEFINITIONS : a.id = id

handleAchievementUnlocked_NoBonus(p, achievement) == p

\* the achievementUnlocked listener the Game registers: the bonus points
handleAchievementUnlocked(p, achievement) ==
    addScore(p, achievement.points).player

AchievementsResult(p, unlocked, events) ==
    [player |-> p, unlocked |-> unlocked, emitted |-> events]

AchievementEvent(id) ==
    [type |-> "achievementUnlocked", achievement |-> id]

\* the forEach of checkAchievements from the i-th achievement on; emit runs
\* the listener before the next achievement is looked at
RECURSIVE achievementsLoop(_, _)
achievementsLoop(r, i) ==
    IF i > Len(achievementIds) THEN r
    ELSE LET id == achievementIds[i]
             achievement == AchievementById(id)
         IN  IF ~hasAchievement(r.player, id) /\ isUnlocked(achievement, r.player)
             THEN achievementsLoop(
                      AchievementsResult(
                          handleAchievementUnlocked(
                              addAchievement(r.player, id).player, achievement),
                          Append(r.unlocked, id),
                          Append(r.emitted, AchievementEvent(id))),
                      i + 1)
             ELSE achievementsLoop(r, i + 1)

RECURSIVE achievementsLoop_NoHasCheck(_, _)
achievementsLoop_NoHasCheck(r, i) ==
    IF i > Len(achievementIds) THEN r
    ELSE LET id == achievementIds[i]
             achievement == AchievementById(id)
         IN  IF isUnlocked(achievement, r.player)
             THEN achievementsLoop_NoHasCheck(
                      AchievementsResult(
                          handleAchievementUnlocked(
                              addAchievement(r.player, id).player, achievement),
                          Append(r.unlocked, id),
                          Append(r.emitted, AchievementEvent(id))),
                      i + 1)
             ELSE achievementsLoop_NoHasCheck(r, i + 1)

checkAchievements_NoHasCheck(p) ==
    achievementsLoop_NoHasCheck(AchievementsResult(p, <<>>, <<>>), 1)

checkAchievements(p) ==
    achievementsLoop(AchievementsResult(p, <<>>, <<>>), 1)

----------------------------------------------------------------------------
(* Operations: problem generation *)

\* Math.floor(Math.random() * n), for the draw r / RandomSteps
floorRandom(r, n) == (r * n) \div RandomSteps

Range(min, max) == [min |-> min, max |-> max]

DifficultyInputs == {"easy", "medium", "hard", "expert"}

\* Addition.getDifficultySettings: settings[difficulty] || settings.medium
AdditionDifficultySettings(difficulty) ==
    CASE difficulty = "easy" -> Range(1, 10)
      [] difficulty = "medium" -> Range(1, 25)
      [] difficulty = "hard" -> Range(10, 99)
      [] OTHER -> Range(1, 25)

\* Addition.generate(settings), with the two draws it makes
AdditionGenerate(settings, draws) ==
    LET num1 == floorRandom(draws[1], settings.max) + settings.min
        num2 == floorRandom(draws[2], settings.max) + settings.min
    IN  [num1 |-> num1, num2 |-> num2, correctAnswer |-> num1 + num2,
         operation |-> "+"]

\* DetectiveOperation.getDifficultySettings
DetectiveDifficultySettings(difficulty) ==
    CASE difficulty = "easy" -> Range(1, 20)
      [] difficulty = "medium" -> Range(5, 50)
      [] difficulty = "hard" -> Range(10, 99)
      [] OTHER -> Range(5, 50)

\* an operand of a detective problem: null, or a number
NoNumber == <<>>

Number(n) == <<n>>

Min(a, b) == IF a <= b THEN a ELSE b

DetectiveProblem(num1, num2, correctAnswer, operation, result, missingPosition) ==
    [num1 |-> num1, num2 |-> num2, correctAnswer |-> correctAnswer,
     operation |-> operation, result |-> result,
     missingPosition |-> missingPosition,
     operationType |-> "detective", isDetective |-> TRUE]

\* the switch on missingPart, the same in both branches: a is the first
\* operand, b the second
MissingPart(missingPart, a, b, result, operation) ==
    CASE missingPart = 0 ->
             DetectiveProblem(NoNumber, Number(b), a, operation, result, "first")
      [] missingPart = 1 ->
             DetectiveProblem(Number(a), NoNumber, b, operation, result, "second")
      [] OTHER ->
             DetectiveProblem(Number(a), Number(b), result, operation, result, "result")

minuendOf_NoMargin(settings, r) ==
    floorRandom(r, settings.max - settings.min + 1) + settings.min

\* the minuend: 5 above the range, to ensure positive results
minuendOf(settings, r) ==
    floorRandom(r, settings.max - settings.min + 1) + settings.min + 5

\* DetectiveOperation.generate(settings), with the four draws it makes
DetectiveGenerate(settings, draws) ==
    IF floorRandom(draws[1], 2) = 0
    THEN LET operand1 == floorRandom(draws[2], settings.max - settings.min + 1)
                             + settings.min
             operand2 == floorRandom(draws[3], settings.max - settings.min + 1)
                             + settings.min
         IN  MissingPart(floorRandom(draws[4], 3), operand1, operand2,
                         operand1 + operand2, "+")
    ELSE LET minuend == minuendOf(settings, draws[2])
             subtrahend == floorRandom(draws[3], Min(minuend - 1, settings.max)) + 1
         IN  MissingPart(floorRandom(draws[4], 3), minuend, subtrahend,
                         minuend - subtrahend, "-")

----------------------------------------------------------------------------
(* StorageService: the entry under the key 'player' *)

\* localStorage.getItem gives null: nothing stored under the key
NoEntry == [kind |-> "none"]

\* a stored text that JSON.parse rejects
CorruptEntry == [kind |-> "text"]

\* JSON.stringify(value), as stored by localStorage.setItem
stringify(value) == [kind |-> "json", data |-> value]

\* JSON.parse(entry): throws on a text that is not JSON
parse(entry) ==
    IF entry.kind = "json" THEN [threw |-> FALSE, value |-> entry.data]
    ELSE [threw |-> TRUE, value |-> <<>>]

GetResult(threw, isNull, value) ==
    [threw |-> threw, isNull |-> isNull, value |-> value]

get_NoCatch(entry) ==
    IF entry = NoEntry THEN GetResult(FALSE, TRUE, <<>>)
    ELSE LET r == parse(entry) IN GetResult(r.threw, r.threw, r.value)

\* get(key, null): null when nothing is stored and when the parse throws
get(entry) ==
    IF entry = NoEntry THEN GetResult(FALSE, TRUE, <<>>)
    ELSE LET r == parse(entry) IN
         IF r.threw THEN GetResult(FALSE, TRUE, <<>>)
         ELSE GetResult(FALSE, FALSE, r.value)

\* set(key, value): writeOk is whether localStorage.setItem returns; when it
\* throws (quota), the exception is caught and the entry stays as it was
set(entry, value, writeOk) ==
    IF writeOk THEN [success |-> TRUE, storage |-> stringify(value)]
    ELSE [success |-> FALSE, storage |-> entry]

savePlayerData(entry, playerData, writeOk) == set(entry, playerData, writeOk)

getPlayerData(entry) == get(entry)

HistoryLimit == 100

\* getGameHistory(): get('gameHistory', [])
getGameHistory(entry) ==
    LET r == get(entry) IN IF r.isNull THEN <<>> ELSE r.value

capHistory_KeepOldest(history) ==
    IF Len(history) > HistoryLimit
    THEN SubSeq(history, 1, HistoryLimit)
    ELSE history

\* history.splice(0, history.length - 100) when there are more than 100
capHistory(history) ==
    IF Len(history) > HistoryLimit
    THEN SubSeq(history, Len(history) - HistoryLimit + 1, Len(history))
    ELSE history

\* saveGameHistory(gameSession): push, cap, set
saveGameHistory(entry, gameSession, writeOk) ==
    set(entry, capHistory(Append(getGameHistory(entry), gameSession)), writeOk)

\* the session saveProgress hands to saveGameHistory
GameSession(p, t) ==
    [timestamp |-> t, playerScore |-> p.totalScore, playerLevel |-> p.level]

----------------------------------------------------------------------------
(* Game: loading, answering, saving *)

\* this.player = null
NoPlayer == [loaded |-> FALSE]

Loaded(p) == "loaded" \notin DOMAIN p

GameState(p, entry, threw, saved, unlocked, events) ==
    [player |-> p, storage |-> entry, threw |-> threw, saved |-> saved,
     unlocked |-> unlocked, emitted |-> events]

loadPlayer(entry, t, writeOk) ==
    LET playerData == getPlayerData(entry) IN
    IF playerData.threw THEN GameState(NoPlayer, entry, TRUE, FALSE, <<>>, <<>>)
    ELSE IF ~playerData.isNull
    THEN GameState(playerFromJSON(playerData.value, t), entry, FALSE, FALSE, <<>>, <<>>)
    ELSE LET p == NewPlayer(t)
             saved == savePlayerData(entry, playerToJSON(p), writeOk)
         IN  GameState(p, saved.storage, FALSE, saved.success, <<>>, <<>>)

saveProgress(p, entry, writeOk) ==
    IF Loaded(p) THEN savePlayerData(entry, playerToJSON(p), writeOk)
    ELSE [success |-> FALSE, storage |-> entry]

\* currentQuestion: its operationType and getPoints() + getDifficultyBonus()
Question(operationType, points) ==
    [operationType |-> operationType, points |-> points]

QuestionInputs == {Question("supermode", 22), Question("addition", 12)}

checkAnswer_SaveFirst(game, question, isCorrect, t, writeOk) ==
    LET recorded == trackConsecutiveCorrect(
                        recordAnswer(game.player, question.operationType, isCorrect,
                                     IF isCorrect THEN question.points ELSE 0, t),
                        isCorrect)
        saved == saveProgress(recorded, game.storage, writeOk)
        checked == checkAchievements(recorded)
    IN  GameState(checked.player, saved.storage, FALSE, saved.success,
                  checked.unlocked, checked.emitted)

\* checkAnswer with an answer typed in: recordAnswer, checkAchievements (the
\* listener adds the bonus points during emit), then saveProgress
checkAnswer(game, question, isCorrect, t, writeOk) ==
    LET recorded == trackConsecutiveCorrect(
                        recordAnswer(game.player, question.operationType, isCorrect,
                                     IF isCorrect THEN question.points ELSE 0, t),
                        isCorrect)
        checked == checkAchievements(recorded)
        saved == saveProgress(checked.player, game.storage, writeOk)
    IN  GameState(checked.player, saved.storage, FALSE, saved.success,
                  checked.unlocked, checked.emitted)

----------------------------------------------------------------------------
(* Game with two attempts per question *)

\* this.currentQuestion = null
NoQuestion == [asked |-> FALSE]

HasQuestion(q) == "asked" \notin DOMAIN q

maxAttempts == 2

\* new Question(...): no attempt made yet; recorded is history, the outcomes
\* passed to recordAnswer for this question
NewQuestion(question) ==
    [operationType |-> question.operationType, points |-> question.points,
     attempts |-> 0, recorded |-> <<>>]

\* submitAnswer counts the attempt
submitAnswer(q) == [q EXCEPT !.attempts = @ + 1]

hasAttemptsLeft(q) == q.attempts < maxAttempts

AttemptResult(game, q, recorded) ==
    [game |-> game, question |-> q, recorded |-> recorded]

\* answer recorded, achievements checked, progress saved
recordAndSave(game, q, isCorrect, points, t, writeOk) ==
    LET recorded == recordAnswer(game.player, q.operationType, isCorrect, points, t)
        checked == checkAchievements(recorded)
        saved == saveProgress(checked.player, game.storage, writeOk)
    IN  GameState(checked.player, saved.storage, FALSE, saved.success,
                  checked.unlocked, checked.emitted)

\* checkAnswer with an answer typed in: a correct answer is recorded; a wrong
\* one is recorded only when no attempts are left after it
checkAnswerWithAttempts(game, q, isCorrect, t, writeOk) ==
    LET submitted == submitAnswer(q) IN
    IF isCorrect
    THEN AttemptResult(recordAndSave(game, q, TRUE, q.points, t, writeOk),
                       submitted, TRUE)
    ELSE IF hasAttemptsLeft(submitted)
    THEN AttemptResult(GameState(game.player, game.storage, FALSE, FALSE, <<>>, <<>>),
                       submitted, FALSE)
    ELSE AttemptResult(recordAndSave(game, q, FALSE, 0, t, writeOk),
                       submitted, TRUE)

----------------------------------------------------------------------------
(* Calls *)

Call(name, key, flag, num, result, threw) ==
    [name |-> name, key |-> key, flag |-> flag, num |-> num,
     result |-> result, threw |-> threw]

Max(a, b) == IF a >= b THEN a ELSE b

Init ==
    /\ player = NewPlayer(0)
    /\ now = 1
    /\ lastCall = Call("new", Null, FALSE, 0, Null, FALSE)
    /\ emitted = <<>>
    /\ maxStreak = 0
    /\ storage = NoEntry
    /\ currentQuestion = NoQuestion
    /\ log = <<>>
    /\ gameHistory = NoEntry

\* player.recordAnswer(operation, isCorrect, points)
RecordAnswer(operation, isCorrect, points) ==
    /\ player' = trackConsecutiveCorrect(
                     recordAnswer(player, operation, isCorrect, points, now), isCorrect)
    /\ now' = now + 1
    /\ lastCall' = Call("recordAnswer", operation, isCorrect, points, Null, FALSE)
    /\ emitted' = <<>>
    /\ maxStreak' = Max(maxStreak, player'.streak)
    /\ storage' = storage
    /\ UNCHANGED <<currentQuestion, log, gameHistory>>

\* player.addScore(points)
AddScore(points) ==
    LET r == addScore(player, points) IN
    /\ player' = r.player
    /\ now' = now + 1
    /\ lastCall' = Call("addScore", Null, FALSE, points, Null, r.threw)
    /\ emitted' = <<>>
    /\ maxStreak' = maxStreak
    /\ storage' = storage
    /\ UNCHANGED <<currentQuestion, log, gameHistory>>

\* badgeSystem.checkAndAwardBadges(currentStreak)
CheckAndAwardBadges(currentStreak) ==
    LET r == checkAndAwardBadges(player, currentStreak, now) IN
    /\ player' = r.player
    /\ now' = now + 1
    /\ lastCall' = Call("checkAndAwardBadges", Null, FALSE, currentStreak, r.newBadge, FALSE)
    /\ emitted' = r.emitted
    /\ maxStreak' = maxStreak
    /\ storage' = storage
    /\ UNCHANGED <<currentQuestion, log, gameHistory>>

\* player.awardBadge(badgeType)
AwardBadge(badgeType) ==
    /\ player' = awardBadge(player, badgeType, now)
    /\ now' = now + 1
    /\ lastCall' = Call("awardBadge", badgeType, FALSE, 0, Null, FALSE)
    /\ emitted' = <<>>
    /\ maxStreak' = maxStreak
    /\ storage' = storage
    /\ UNCHANGED <<currentQuestion, log, gameHistory>>

\* badgeSystem.resetProgress()
ResetProgress ==
    /\ player' = resetBadgeProgress(player)
    /\ now' = now + 1
    /\ lastCall' = Call("resetProgress", Null, FALSE, 0, Null, FALSE)
    /\ emitted' = <<Event("badgeProgressReset", Null, 0)>>
    /\ maxStreak' = maxStreak
    /\ storage' = storage
    /\ UNCHANGED <<currentQuestion, log, gameHistory>>

\* badgeSystem.getBadgeForStreak(streak)
GetBadgeForStreak(streak) ==
    /\ player' = player
    /\ now' = now + 1
    /\ lastCall' = Call("getBadgeForStreak", Null, FALSE, streak,
                        getBadgeForStreak(streak), FALSE)
    /\ emitted' = <<>>
    /\ maxStreak' = maxStreak
    /\ storage' = storage
    /\ UNCHANGED <<currentQuestion, log, gameHistory>>

\* badgeSystem.getNextBadgeTarget(currentStreak)
GetNextBadgeTarget(currentStreak) ==
    /\ player' = player
    /\ now' = now + 1
    /\ lastCall' = Call("getNextBadgeTarget", Null, FALSE, currentStreak,
                        getNextBadgeTarget(player, currentStreak), FALSE)
    /\ emitted' = <<>>
    /\ maxStreak' = maxStreak
    /\ storage' = storage
    /\ UNCHANGED <<currentQuestion, log, gameHistory>>

\* game.loadPlayer(), at the start of a session
LoadPlayer(writeOk) ==
    LET r == loadPlayer(storage, now, writeOk) IN
    /\ player' = r.player
    /\ now' = now + 1
    /\ lastCall' = Call("loadPlayer", storage.kind, r.saved, 0, Null, r.threw)
    /\ emitted' = <<>>
    /\ maxStreak' = IF Loaded(r.player) THEN r.player.bestStreak ELSE 0
    /\ storage' = r.storage
    /\ UNCHANGED <<currentQuestion, log, gameHistory>>

\* game.checkAnswer() on a question with an answer typed in; historyOk is
\* whether the write of the game history, the last step of saveProgress,
\* goes through
CheckAnswer(question, isCorrect, writeOk, historyOk) ==
    LET r == checkAnswer([player |-> player, storage |-> storage],
                         question, isCorrect, now, writeOk) IN
    /\ player' = r.player
    /\ now' = now + 1
    /\ lastCall' = Call("checkAnswer", question.operationType, isCorrect,
                        question.points, [unlocked |-> r.unlocked, saved |-> r.saved],
                        FALSE)
    /\ emitted' = r.emitted
    /\ maxStreak' = Max(maxStreak, r.player.streak)
    /\ storage' = r.storage
    /\ log' = log \o r.emitted
    /\ gameHistory' = saveGameHistory(gameHistory, GameSession(r.player, now),
                                      historyOk).storage
    /\ UNCHANGED currentQuestion

\* game.generateQuestion()
GenerateQuestion(question) ==
    /\ currentQuestion' = NewQuestion(question)
    /\ now' = now + 1
    /\ lastCall' = Call("generateQuestion", question.operationType, FALSE,
                        question.points, Null, FALSE)
    /\ emitted' = <<>>
    /\ UNCHANGED <<player, maxStreak, storage, log, gameHistory>>

\* game.checkAnswer() of the two-attempt Game, with an answer typed in
CheckAnswerWithAttempts(isCorrect, writeOk, historyOk) ==
    LET r == checkAnswerWithAttempts([player |-> player, storage |-> storage],
                                     currentQuestion, isCorrect, now, writeOk) IN
    /\ player' = r.game.player
    /\ now' = now + 1
    /\ lastCall' = Call("checkAnswerWithAttempts", currentQuestion.operationType,
                        isCorrect, r.question.attempts,
                        [recorded |-> r.recorded, saved |-> r.game.saved], FALSE)
    /\ emitted' = r.game.emitted
    /\ maxStreak' = Max(maxStreak, r.game.player.streak)
    /\ storage' = r.game.storage
    /\ currentQuestion' =
           IF r.recorded
           THEN [r.question EXCEPT !.recorded = Append(@, isCorrect)]
           ELSE r.question
    /\ log' = log \o r.game.emitted
    /\ gameHistory' =
           IF r.recorded
           THEN saveGameHistory(gameHistory, GameSession(r.game.player, now),
                                historyOk).storage
           ELSE gameHistory

\* storageService.saveGameHistory(gameSession)
SaveGameHistory(gameSession, writeOk) ==
    LET r == saveGameHistory(gameHistory, gameSession, writeOk) IN
    /\ gameHistory' = r.storage
    /\ now' = now + 1
    /\ lastCall' = Call("saveGameHistory", Null, r.success, 0, gameSession, FALSE)
    /\ emitted' = <<>>
    /\ UNCHANGED <<player, maxStreak, storage, currentQuestion, log>>

\* player.getAccuracy(operation)
GetAccuracy(operation) ==
    /\ player' = player
    /\ now' = now + 1
    /\ lastCall' = Call("getAccuracy", operation, FALSE, 0,
                        getAccuracy(player, operation), FALSE)
    /\ emitted' = <<>>
    /\ maxStreak' = maxStreak
    /\ storage' = storage
    /\ UNCHANGED <<currentQuestion, log, gameHistory>>

\* new Addition().generateProblem(difficulty), on the draws waiting in lastCall
GenerateAddition ==
    /\ lastCall' = Call("Addition.generate", lastCall.key, FALSE, 0,
                        AdditionGenerate(AdditionDifficultySettings(lastCall.key),
                                         lastCall.result),
                        FALSE)
    /\ now' = now + 1
    /\ UNCHANGED <<player, emitted, maxStreak, storage, currentQuestion, log, gameHistory>>

\* new DetectiveOperation().generateProblem(difficulty), likewise
GenerateDetective ==
    /\ lastCall' = Call("Detective.generate", lastCall.key, FALSE, 0,
                        DetectiveGenerate(DetectiveDifficultySettings(lastCall.key),
                                          lastCall.result),
                        FALSE)
    /\ now' = now + 1
    /\ UNCHANGED <<player, emitted, maxStreak, storage, currentQuestion, log, gameHistory>>

\* player.addAchievement(achievementId)
AddAchievement(achievementId) ==
    LET r == addAchievement(player, achievementId) IN
    /\ player' = r.player
    /\ now' = now + 1
    /\ lastCall' = Call("addAchievement", achievementId, r.added, 0, Null, FALSE)
    /\ emitted' = <<>>
    /\ maxStreak' = maxStreak
    /\ storage' = storage
    /\ UNCHANGED <<currentQuestion, log, gameHistory>>

\* player.updateSettings(newSettings)
UpdateSettings(newSettings) ==
    /\ player' = updateSettings(player, newSettings)
    /\ now' = now + 1
    /\ lastCall' = Call("updateSettings", Null, FALSE, 0, newSettings, FALSE)
    /\ emitted' = <<>>
    /\ maxStreak' = maxStreak
    /\ storage' = storage
    /\ UNCHANGED <<currentQuestion, log, gameHistory>>

\* game.checkAchievements(), the Game's achievementUnlocked listener included
CheckAchievements ==
    LET r == checkAchievements(player) IN
    /\ player' = r.player
    /\ now' = now + 1
    /\ lastCall' = Call("checkAchievements", Null, FALSE, 0, r.unlocked, FALSE)
    /\ emitted' = r.emitted
    /\ maxStreak' = maxStreak
    /\ storage' = storage
    /\ log' = log \o r.emitted
    /\ UNCHANGED <<currentQuestion, gameHistory>>

\* one iteration of the badge simulation: an answer to an addition question
\* worth 10 points, then the badge check on the player's consecutive count
SimulationStep(isCorrect) ==
    LET answered == trackConsecutiveCorrect(
                        recordAnswer(player, "addition", isCorrect, 10, now), isCorrect)
        r == IF isCorrect
             THEN checkAndAwardBadges(answered, answered.consecutiveCorrect, now)
             ELSE CheckResult(answered, Null, <<>>)
    IN  /\ player' = r.player
        /\ now' = now + 1
        /\ lastCall' = Call("simulationStep", "addition", isCorrect, 10, r.newBadge, FALSE)
        /\ emitted' = r.emitted
        /\ maxStreak' = Max(maxStreak, player'.streak)
        /\ storage' = storage
        /\ UNCHANGED <<currentQuestion, log, gameHistory>>

----------------------------------------------------------------------------
(* Spec: the Player record under its own methods *)

AnswerCall ==
    /\ now <= MaxCalls
    /\ \E operation \in OperationInputs, isCorrect \in BOOLEAN, points \in PointInputs :
           RecordAnswer(operation, isCorrect, points)

AddScoreCall ==
    /\ now <= MaxCalls
    /\ \E points \in DeltaInputs : AddScore(points)

PlayerAchievementCall ==
    /\ now <= MaxCalls
    /\ \E achievementId \in AchievementInputs : AddAchievement(achievementId)

PlayerSettingsCall ==
    /\ now <= MaxCalls
    /\ \E newSettings \in SettingsInputs : UpdateSettings(newSettings)

PlayerBadgeCall ==
    /\ now <= MaxCalls
    /\ \E badgeType \in BadgeTypes : AwardBadge(badgeType)

Next ==
    \/ AnswerCall
    \/ AddScoreCall
    \/ PlayerAchievementCall
    \/ PlayerSettingsCall
    \/ PlayerBadgeCall

Spec == Init /\ [][Next]_vars

(* AnswerSpec: a fresh player under recordAnswer alone, with accuracy queries *)

AccuracyCall ==
    /\ now <= MaxCalls
    /\ \E operation \in AccuracyInputs : GetAccuracy(operation)

NextAnswer == AnswerCall \/ AccuracyCall

AnswerSpec == Init /\ [][NextAnswer]_vars

(* ScenarioSpec: a fresh player given correct ten-point answers only *)

TenPointCall ==
    /\ now <= MaxTenAnswers
    /\ \E operation \in OperationInputs : RecordAnswer(operation, TRUE, 10)

ScenarioSpec == Init /\ [][TenPointCall]_vars

(* OperationSpec: one generated problem per behaviour, for every difficulty *)
(* and every outcome of the random draws                                    *)

FineDraws == 0..(RandomSteps - 1)

\* draws that only select one of two or three branches
CoarseDraws == {0, RandomSteps \div 2, RandomSteps - 1}

InitOperation ==
    /\ player = NewPlayer(0)
    /\ now = 1
    /\ emitted = <<>>
    /\ maxStreak = 0
    /\ storage = NoEntry
    /\ currentQuestion = NoQuestion
    /\ log = <<>>
    /\ gameHistory = NoEntry
    /\ \E difficulty \in DifficultyInputs :
          \/ \E r1, r2 \in FineDraws :
                lastCall = Call("Addition.draws", difficulty, FALSE, 0,
                                <<r1, r2>>, FALSE)
          \/ \E r1, r4 \in CoarseDraws, r2, r3 \in FineDraws :
                lastCall = Call("Detective.draws", difficulty, FALSE, 0,
                                <<r1, r2, r3, r4>>, FALSE)

AdditionCall == lastCall.name = "Addition.draws" /\ GenerateAddition

DetectiveCall == lastCall.name = "Detective.draws" /\ GenerateDetective

NextOperation == AdditionCall \/ DetectiveCall

OperationSpec == InitOperation /\ [][NextOperation]_vars

(* AttemptSpec: the two-attempt Game, any submissions on each question *)

InitAttempt ==
    LET loaded == loadPlayer(NoEntry, 0, TRUE) IN
    /\ player = loaded.player
    /\ now = 1
    /\ lastCall = Call("loadPlayer", NoEntry.kind, loaded.saved, 0, Null, FALSE)
    /\ emitted = <<>>
    /\ maxStreak = 0
    /\ storage = loaded.storage
    /\ currentQuestion = NoQuestion
    /\ log = <<>>
    /\ gameHistory = NoEntry

GenerateQuestionCall ==
    /\ now <= MaxAttemptSteps
    /\ \E question \in QuestionInputs : GenerateQuestion(question)

SubmitCall ==
    /\ now <= MaxAttemptSteps
    /\ HasQuestion(currentQuestion)
    /\ \E isCorrect, writeOk, historyOk \in BOOLEAN :
           CheckAnswerWithAttempts(isCorrect, writeOk, historyOk)

NextAttempt == GenerateQuestionCall \/ SubmitCall

AttemptSpec == InitAttempt /\ [][NextAttempt]_vars

(* HistorySpec: sessions saved to a game history that is nearly full *)

SessionInputs == {0, 10}

\* what is stored after n sessions were saved, one per tick, n within the limit
SavedHistory(n) ==
    stringify([i \in 1..n |->
                  [timestamp |-> i, playerScore |-> 0, playerLevel |-> 1]])

InitHistory ==
    /\ player = NewPlayer(0)
    /\ now = StartSaved + 1
    /\ lastCall = Call("new", Null, FALSE, 0, Null, FALSE)
    /\ emitted = <<>>
    /\ maxStreak = 0
    /\ storage = NoEntry
    /\ currentQuestion = NoQuestion
    /\ log = <<>>
    /\ gameHistory = SavedHistory(StartSaved)

SaveGameHistoryCall ==
    /\ now <= StartSaved + MaxHistoryCalls
    /\ \E playerScore \in SessionInputs, writeOk \in BOOLEAN :
           SaveGameHistory([timestamp |-> now, playerScore |-> playerScore,
                            playerLevel |-> 1], writeOk)

HistorySpec == InitHistory /\ [][SaveGameHistoryCall]_vars

(* BadgeSpec: the BadgeSystem called with any streak value, between answers *)

BadgeAnswerCall ==
    /\ now <= MaxBadgeCalls
    /\ \E isCorrect \in BOOLEAN : RecordAnswer("addition", isCorrect, 10)

CheckBadgesCall ==
    /\ now <= MaxBadgeCalls
    /\ \E currentStreak \in StreakInputs \cup {player.consecutiveCorrect} :
           CheckAndAwardBadges(currentStreak)

AwardBadgeCall ==
    /\ now <= MaxBadgeCalls
    /\ \E badgeType \in BadgeTypes : AwardBadge(badgeType)

ResetProgressCall ==
    /\ now <= MaxBadgeCalls
    /\ ResetProgress

BadgeForStreakCall ==
    /\ now <= MaxBadgeCalls
    /\ \E streak \in QueryInputs : GetBadgeForStreak(streak)

NextTargetCall ==
    /\ now <= MaxBadgeCalls
    /\ \E currentStreak \in QueryInputs : GetNextBadgeTarget(currentStreak)

NextBadge ==
    \/ BadgeAnswerCall
    \/ CheckBadgesCall
    \/ AwardBadgeCall
    \/ ResetProgressCall
    \/ BadgeForStreakCall
    \/ NextTargetCall

BadgeSpec == Init /\ [][NextBadge]_vars

(* LoopSpec: the badge check made after every answer *)

SimulationCorrect ==
    /\ now <= MaxLoopSteps
    /\ SimulationStep(TRUE)

SimulationWrong ==
    /\ now <= MaxLoopSteps
    /\ SimulationStep(FALSE)

NextLoop == SimulationCorrect \/ SimulationWrong

LoopSpec == Init /\ [][NextLoop]_vars

(* AchSpec: the achievement check between answers and bonus points, on a  *)
(* player that is a few correct Super Mode answers short of an achievement *)

RECURSIVE AnsweredPlayer(_)
AnsweredPlayer(n) ==
    IF n = 0 THEN NewPlayer(0)
    ELSE trackConsecutiveCorrect(
             recordAnswer(AnsweredPlayer(n - 1), "supermode", TRUE, 22, n), TRUE)

InitAch ==
    /\ player = AnsweredPlayer(StartCorrect)
    /\ now = StartCorrect + 1
    /\ lastCall = Call("recordAnswer", "supermode", TRUE, 22, Null, FALSE)
    /\ emitted = <<>>
    /\ maxStreak = StartCorrect
    /\ storage = NoEntry
    /\ currentQuestion = NoQuestion
    /\ log = <<>>
    /\ gameHistory = NoEntry

AchAnswerCall ==
    /\ now <= StartCorrect + MaxAchCalls
    /\ \E isCorrect \in BOOLEAN : RecordAnswer("supermode", isCorrect, 22)

CheckAchievementsCall ==
    /\ now <= StartCorrect + MaxAchCalls
    /\ CheckAchievements

AddAchievementCall ==
    /\ now <= StartCorrect + MaxAchCalls
    /\ \E achievementId \in AchievementInputs : AddAchievement(achievementId)

AchAddScoreCall ==
    /\ now <= StartCorrect + MaxAchCalls
    /\ \E points \in DeltaInputs : AddScore(points)

NextAch == AchAnswerCall \/ CheckAchievementsCall \/ AddAchievementCall \/ AchAddScoreCall

AchSpec == InitAch /\ [][NextAch]_vars

(* GameSpec: sessions of the Game over the stored snapshot *)

\* the Game after correct Super Mode answers number from + 1 to number to,
\* all saved
\* one of those answers, given to a Game whose load did not throw
PlayedOn(game, t) ==
    IF game.threw THEN game
    ELSE checkAnswer(game, Question("supermode", 22), TRUE, t, TRUE)

RECURSIVE PlayedFrom(_, _, _)
PlayedFrom(game, from, to) ==
    IF from >= to THEN game
    ELSE PlayedOn(PlayedFrom(game, from, to - 1), to)

\* the earlier play, StartCorrect correct answers in all, in three sittings
FirstSitting == PlayedFrom(loadPlayer(NoEntry, 0, TRUE), 0, StartCorrect \div 3)

SecondSitting ==
    PlayedFrom(FirstSitting, StartCorrect \div 3, 2 * (StartCorrect \div 3))

ThirdSitting == PlayedFrom(SecondSitting, 2 * (StartCorrect \div 3), StartCorrect)

\* what a session can find under the key: nothing, a damaged text, or the
\* snapshot an earlier session left
StoredInputs == {NoEntry, CorruptEntry, ThirdSitting.storage}

InitGame ==
    /\ player = NoPlayer
    /\ now = StartCorrect + 1
    /\ lastCall = Call("new", Null, FALSE, 0, Null, FALSE)
    /\ emitted = <<>>
    /\ maxStreak = 0
    /\ storage \in StoredInputs
    /\ currentQuestion = NoQuestion
    /\ log = <<>>
    /\ gameHistory = NoEntry

LoadPlayerCall ==
    /\ now <= StartCorrect + MaxGameSteps
    /\ \E writeOk \in BOOLEAN : LoadPlayer(writeOk)

CheckAnswerCall ==
    /\ now <= StartCorrect + MaxGameSteps
    /\ Loaded(player)
    /\ \E question \in QuestionInputs, isCorrect, writeOk, historyOk \in BOOLEAN :
           CheckAnswer(question, isCorrect, writeOk, historyOk)

NextGame == LoadPlayerCall \/ CheckAnswerCall

GameSpec == InitGame /\ [][NextGame]_vars

----------------------------------------------------------------------------
(* Player record: score, level and streaks (Spec) *)

IsCall(c, name) == c.name = name

\* the entry of a category, zeroed when the category has none
StatsOf(p, operation) ==
    IF operation \in DOMAIN p.operationStats
    THEN p.operationStats[operation] ELSE ZeroStats

\* C1: after every recordAnswer and addScore call from a fresh player,
\* level = floor(totalScore / 50) + 1.
C1_LevelIsScoreOver50 ==
    player.level = (player.totalScore \div 50) + 1

\* C2: after every recordAnswer call streak <= bestStreak, and bestStreak is
\* the largest value streak has ever taken.
C2_BestStreakIsMaxStreak ==
    /\ player.streak <= player.bestStreak
    /\ player.bestStreak = maxStreak

\* a miss after a run of two or more, followed by a shorter run
C2_Witness ==
    /\ IsCall(lastCall, "recordAnswer")
    /\ lastCall.flag
    /\ player.streak >= 1
    /\ player.bestStreak > player.streak

\* C3: addScore with a negative amount throws and leaves the whole player
\* record unchanged; totalScore is never negative and never decreases.
C3_NegativeScoreRejected ==
    [][ /\ (IsCall(lastCall', "addScore") /\ lastCall'.num < 0)
            => (lastCall'.threw /\ player' = player)
        /\ player'.totalScore >= player.totalScore
        /\ player'.totalScore >= 0 ]_vars

\* a negative addScore has just been rejected on a player that has points
C3_Witness ==
    /\ IsCall(lastCall, "addScore")
    /\ lastCall.num < 0
    /\ lastCall.threw
    /\ player.totalScore > 0

\* C4: recordAnswer(category, true, p) adds 1 to the category's
\* questionsAnswered and correctAnswers, p to the category score and to
\* totalScore, 1 to streak, and sets bestStreak to max(bestStreak, streak).
C4_CorrectAnswerEffect ==
    [][ (IsCall(lastCall', "recordAnswer") /\ lastCall'.flag) =>
          LET c   == lastCall'.key
              pts == lastCall'.num
              old == StatsOf(player, c)
              new == StatsOf(player', c)
          IN  /\ c \in DOMAIN player'.operationStats
              /\ new.questionsAnswered = old.questionsAnswered + 1
              /\ new.correctAnswers = old.correctAnswers + 1
              /\ new.score = old.score + pts
              /\ player'.totalScore = player.totalScore + pts
              /\ player'.streak = player.streak + 1
              /\ player'.bestStreak = Max(player.bestStreak, player'.streak) ]_vars

\* a correct answer worth points has extended a run and raised bestStreak
C4_Witness ==
    /\ IsCall(lastCall, "recordAnswer")
    /\ lastCall.flag
    /\ lastCall.num > 0
    /\ player.streak >= 2
    /\ player.bestStreak = player.streak
    /\ StatsOf(player, lastCall.key).score >= lastCall.num

\* C5: recordAnswer(category, false, p) changes only the category's
\* questionsAnswered (+1) and streak (0): totalScore, level, bestStreak,
\* every category's score and correctAnswers and the achievements stay.
C5_IncorrectAnswerFrame ==
    [][ (IsCall(lastCall', "recordAnswer") /\ ~lastCall'.flag) =>
          LET c == lastCall'.key IN
          /\ StatsOf(player', c).questionsAnswered = StatsOf(player, c).questionsAnswered + 1
          /\ player'.streak = 0
          /\ player'.totalScore = player.totalScore
          /\ player'.level = player.level
          /\ player'.bestStreak = player.bestStreak
          /\ player'.achievements = player.achievements
          /\ \A o \in DOMAIN player'.operationStats :
                /\ StatsOf(player', o).score = StatsOf(player, o).score
                /\ StatsOf(player', o).correctAnswers = StatsOf(player, o).correctAnswers
                /\ o # c => StatsOf(player', o) = StatsOf(player, o) ]_vars

----------------------------------------------------------------------------
(* BadgeSystem (BadgeSpec, LoopSpec) *)

\* the unearned badges whose threshold currentStreak has reached
Eligible(p, currentStreak) ==
    {b \in BadgeTypes : BADGE_THRESHOLDS[b] <= currentStreak /\ ~p.badges[b].earned}

LowestThreshold(S) ==
    CHOOSE b \in S : \A o \in S : BADGE_THRESHOLDS[b] <= BADGE_THRESHOLDS[o]

C7_BadgesFollowBestStreak ==
    /\ \A b \in BadgeTypes :
          player.badges[b].earned <=> player.bestStreak >= BADGE_THRESHOLDS[b]
    /\ \A b \in BadgeTypes : player.badges[b].count <= 1
    /\ (IsCall(lastCall, "simulationStep") /\ lastCall.result # Null) =>
          /\ player.streak = BADGE_THRESHOLDS[lastCall.result]
          /\ player.badges[lastCall.result].lastEarned = now - 1

\* the call at streak 15 has awarded gold, the last of the four
C7_Witness ==
    /\ IsCall(lastCall, "simulationStep")
    /\ lastCall.result = "gold"
    /\ player.streak = 15
    /\ \A b \in BadgeTypes : player.badges[b].earned

RepeatQualification(b) ==
    /\ IsCall(lastCall', "simulationStep")
    /\ lastCall'.flag
    /\ player.badges[b].earned
    /\ player'.streak = BADGE_THRESHOLDS[b]

\* C9 as stated: on repeat qualification the re-evaluation increments the
\* badge's count and updates lastEarned, earned staying true.
C9_RepeatIncrementsCount ==
    [][ \A b \in BadgeTypes : RepeatQualification(b) =>
          /\ player'.badges[b].earned
          /\ player'.badges[b].count = player.badges[b].count + 1
          /\ player'.badges[b].lastEarned = now ]_vars

\* C9 (amended): on repeat qualification the re-evaluation leaves the
\* badge's earned, count and lastEarned as they were.
C9_RepeatLeavesBadge ==
    [][ \A b \in BadgeTypes : RepeatQualification(b) =>
          /\ player'.badges[b].earned
          /\ player'.badges[b] = player.badges[b] ]_vars

\* after a miss the streak is back at 3 and the check has run: badge1, earned
\* in the first run, still has count 1 and its first lastEarned
C9_Witness ==
    /\ IsCall(lastCall, "simulationStep")
    /\ lastCall.flag
    /\ player.streak = BADGE_THRESHOLDS["badge1"]
    /\ StatsOf(player, "addition").questionsAnswered
           > StatsOf(player, "addition").correctAnswers
    /\ player.badges["badge1"].earned
    /\ player.badges["badge1"].count = 1
    /\ player.badges["badge1"].lastEarned < now - 1

----------------------------------------------------------------------------
(* Achievement (LoopSpec) *)

\* the stat a definition's category selects
SelectedStat(achievement, p) ==
    CASE achievement.category \in DefaultOperations ->
             StatsOf(p, achievement.category).correctAnswers
      [] achievement.category = "overall" -> p.totalScore
      [] achievement.category = "streak" -> p.bestStreak
      [] OTHER -> 0

\* C10: for every achievement definition isUnlocked(player) is true exactly
\* when the stat its category selects has reached the requirement
\* (streak_10 as soon as bestStreak >= 10).
C10_UnlockedIffStatReached ==
    \A a \in ACHIEVEMENT_DEFINITIONS :
        isUnlocked(a, player) <=> SelectedStat(a, player) >= a.requirement

----------------------------------------------------------------------------
(* Achievements (AchSpec) *)

RECURSIVE SumPoints(_)
SumPoints(ids) ==
    IF ids = <<>> THEN 0
    ELSE AchievementById(Head(ids)).points + SumPoints(Tail(ids))

\* C12 as stated: checkAchievements changes nothing in the player record but
\* the achievements: totalScore, level, streak, bestStreak and operationStats
\* are the same after the call as before it.
C12_CheckAchievementsOnlyAddsIds ==
    [][ IsCall(lastCall', "checkAchievements") =>
          /\ player'.totalScore = player.totalScore
          /\ player'.level = player.level
          /\ player'.streak = player.streak
          /\ player'.bestStreak = player.bestStreak
          /\ player'.operationStats = player.operationStats ]_vars

\* C12 (amended): checkAchievements adds the newly unlocked ids to the
\* achievements and, through the Game's achievementUnlocked listener, their
\* points to totalScore; level, streak, bestStreak and operationStats are the
\* same after the call as before it.
C12_CheckAchievementsAddsIdsAndBonus ==
    [][ IsCall(lastCall', "checkAchievements") =>
          /\ player'.achievements = player.achievements \o lastCall'.result
          /\ player'.totalScore = player.totalScore + SumPoints(lastCall'.result)
          /\ player' = [player EXCEPT !.achievements = player'.achievements,
                                      !.totalScore = player'.totalScore] ]_vars

\* a call has just unlocked super_bronze
C12_Witness ==
    /\ IsCall(lastCall, "checkAchievements")
    /\ lastCall.result = <<"super_bronze">>
    /\ Includes(player.achievements, "super_bronze")

\* C13: an id that is in player.achievements stays in it, whatever is called.
C13_AchievementsMonotonic ==
    [][ \A i \in 1..Len(player.achievements) :
            Includes(player'.achievements, player.achievements[i]) ]_vars

\* an id was added to a player that already held another one
C13_Witness ==
    /\ Len(player.achievements) >= 2
    /\ \/ IsCall(lastCall, "checkAchievements") /\ Len(lastCall.result) >= 1
       \/ IsCall(lastCall, "addAchievement") /\ lastCall.flag

NoDuplicates(seq) ==
    \A i, j \in 1..Len(seq) : seq[i] = seq[j] => i = j

\* C14: addAchievement(id) returns true and adds id when id is absent,
\* returns false and changes nothing when it is present; achievements never
\* holds a duplicate.
C14_AddAchievementIdempotent ==
    [][ /\ IsCall(lastCall', "addAchievement") =>
             IF Includes(player.achievements, lastCall'.key)
             THEN ~lastCall'.flag /\ player' = player
             ELSE /\ lastCall'.flag
                  /\ player' = [player EXCEPT
                                   !.achievements = Append(@, lastCall'.key)]
        /\ NoDuplicates(player'.achievements) ]_vars

\* a second addAchievement of the same id has returned false
C14_Witness ==
    /\ IsCall(lastCall, "addAchievement")
    /\ ~lastCall.flag
    /\ Includes(player.achievements, lastCall.key)

----------------------------------------------------------------------------
(* Snapshot and restore (Spec) *)

----------------------------------------------------------------------------
(* Badge queries and the empty check (BadgeSpec) *)

Unearned(p) == {b \in BadgeTypes : ~p.badges[b].earned}

\* C18: getNextBadgeTarget(currentStreak) returns the unearned badge with the
\* lowest threshold, whether that threshold is above or at currentStreak,
\* with remaining = threshold - currentStreak, and returns null only when
\* all four badges are earned.
C18_NextTargetIsLowestUnearned ==
    [][ IsCall(lastCall', "getNextBadgeTarget") =>
          LET s == lastCall'.num
              U == Unearned(player)
              target == lastCall'.result
          IN  IF U = {} THEN target = NoTarget
              ELSE LET b == LowestThreshold(U) IN
                   /\ target.badgeType = b
                   /\ target.threshold = BADGE_THRESHOLDS[b]
                   /\ target.remaining = BADGE_THRESHOLDS[b] - s ]_vars

HighestThreshold(S) ==
    CHOOSE b \in S : \A o \in S : BADGE_THRESHOLDS[b] >= BADGE_THRESHOLDS[o]

\* C19: getBadgeForStreak(s) returns, whatever badges the player has earned,
\* the badge with the highest threshold <= s (gold from 15, silver for
\* 10..14, bronze for 5..9, badge1 for 3..4) and null for s < 3, and it
\* changes no state.
C19_BadgeForStreakIsHighestReached ==
    [][ IsCall(lastCall', "getBadgeForStreak") =>
          LET s == lastCall'.num
              R == {b \in BadgeTypes : BADGE_THRESHOLDS[b] <= s}
              badge == lastCall'.result
          IN  /\ badge = (IF R = {} THEN Null ELSE HighestThreshold(R))
              /\ s >= 15 => badge = "gold"
              /\ s \in 10..14 => badge = "silver"
              /\ s \in 5..9 => badge = "bronze"
              /\ s \in 3..4 => badge = "badge1"
              /\ s < 3 => badge = Null
              /\ player' = player
              /\ emitted' = <<>>
              /\ storage' = storage ]_vars

\* the query at a streak of 10..14 answers silver for a player whose only
\* earned badge is gold
C19_Witness ==
    /\ IsCall(lastCall, "getBadgeForStreak")
    /\ lastCall.num \in 10..14
    /\ lastCall.result = "silver"
    /\ player.badges["gold"].earned
    /\ ~player.badges["silver"].earned

\* C20: when no unearned badge has a threshold <= currentStreak,
\* checkAndAwardBadges returns null, emits no badgeEarned event and leaves
\* every badge's earned flag and count unchanged.
C20_NothingEligibleNothingAwarded ==
    [][ (IsCall(lastCall', "checkAndAwardBadges")
           /\ Eligible(player, lastCall'.num) = {}) =>
          /\ lastCall'.result = Null
          /\ emitted' = <<>>
          /\ \A b \in BadgeTypes :
                /\ player'.badges[b].earned = player.badges[b].earned
                /\ player'.badges[b].count = player.badges[b].count ]_vars

\* a check at a streak of 5 or more that found badge1 and bronze earned
\* already and awarded nothing
C20_Witness ==
    /\ IsCall(lastCall, "checkAndAwardBadges")
    /\ lastCall.num \in 5..9
    /\ lastCall.result = Null
    /\ emitted = <<>>
    /\ player.badges["badge1"].count = 1
    /\ player.badges["bronze"].count = 1

----------------------------------------------------------------------------
(* The Game and the stored snapshot (GameSpec) *)

OperationAchievements ==
    {a \in ACHIEVEMENT_DEFINITIONS : a.category \in DefaultOperations}

CorrectIn(p, category) == p.operationStats[category].correctAnswers

\* C11: with checkAchievements called after every answer, an operation
\* achievement with requirement R is not returned while the category's
\* correctAnswers is below R, is returned by the call that follows the R-th
\* correct answer in that category, and from then on its id is in
\* player.achievements.
C11_UnlockedAtRequirement ==
    [][ IsCall(lastCall', "checkAnswer") =>
          \A a \in OperationAchievements :
              LET n == CorrectIn(player', a.category)
                  returned == Includes(lastCall'.result.unlocked, a.id)
              IN  /\ n < a.requirement =>
                        ~returned /\ ~hasAchievement(player', a.id)
                  /\ (/\ n = a.requirement
                      /\ lastCall'.flag
                      /\ lastCall'.key = a.category) => returned
                  /\ n >= a.requirement => hasAchievement(player', a.id) ]_vars

\* the 25th correct Super Mode answer: super_bronze is returned and held
C11_Witness ==
    /\ IsCall(lastCall, "checkAnswer")
    /\ lastCall.flag
    /\ CorrectIn(player, "supermode") = 25
    /\ lastCall.result.unlocked = <<"super_bronze">>
    /\ hasAchievement(player, "super_bronze")

\* C16: whenever checkAnswer has recorded an answer and returned, the stored
\* snapshot equals the player's current toJSON(), achievement bonus points
\* of that call included.
C16_SnapshotAfterEveryAnswer ==
    [][ IsCall(lastCall', "checkAnswer") =>
          storage' = stringify(playerToJSON(player')) ]_vars

\* C16, amended: the stored snapshot equals the player's current toJSON(),
\* bonus points included, after every checkAnswer whose write succeeded; when
\* the write fails the stored entry is the one from before the call.
C16_SnapshotAfterEverySavedAnswer ==
    [][ IsCall(lastCall', "checkAnswer") =>
          IF lastCall'.result.saved
          THEN storage' = stringify(playerToJSON(player'))
          ELSE storage' = storage ]_vars

\* an answer that unlocked super_bronze: the stored totalScore has the 100
\* bonus points on top of the 25 answers' points
C16_Witness ==
    /\ IsCall(lastCall, "checkAnswer")
    /\ lastCall.result.saved
    /\ lastCall.result.unlocked = <<"super_bronze">>
    /\ storage.kind = "json"
    /\ storage.data.totalScore = player.totalScore
    /\ player.totalScore = 25 * 22 + 100

\* C17: when the stored snapshot is missing or cannot be parsed, loadPlayer
\* constructs a default player (totalScore 0, level 1, streak 0, no
\* achievements) and no exception reaches the caller.
C17_MissingOrCorruptGivesDefault ==
    [][ (IsCall(lastCall', "loadPlayer") /\ storage \in {NoEntry, CorruptEntry}) =>
          /\ ~lastCall'.threw
          /\ Loaded(player')
          /\ player'.totalScore = 0
          /\ player'.level = 1
          /\ player'.streak = 0
          /\ player'.achievements = <<>> ]_vars

\* a load that found a text it could not parse and whose own write of the
\* default snapshot went through
C17_Witness ==
    /\ IsCall(lastCall, "loadPlayer")
    /\ lastCall.key = "text"
    /\ ~lastCall.threw
    /\ Loaded(player)
    /\ player.totalScore = 0
    /\ storage = stringify(playerToJSON(player))

----------------------------------------------------------------------------
(* Ten-point answers (ScenarioSpec) *)

\* C21: for a fresh player, after n calls recordAnswer(category, true, 10)
\* totalScore is 10*n and level is floor(10*n / 50) + 1; six correct answers
\* give totalScore 60 and level 2.
C21_TenPointAnswers ==
    LET n == now - 1 IN
    /\ player.totalScore = 10 * n
    /\ player.level = ((10 * n) \div 50) + 1
    /\ n = 6 => (player.totalScore = 60 /\ player.level = 2)

\* ten answers in: the second level step has been taken
C21_Witness ==
    /\ IsCall(lastCall, "recordAnswer")
    /\ now - 1 = 10
    /\ player.totalScore = 100
    /\ player.level = 3

----------------------------------------------------------------------------
(* Answers and accuracy (AnswerSpec) *)

\* C22: getAccuracy(category) returns exactly 0 when the category has no
\* questions answered or does not exist, and otherwise correctAnswers /
\* questionsAnswered * 100 rounded to two decimals, between 0 and 100.
\* The result is read in hundredths of a percent: r is the rounding of the
\* exact quotient x when |r - x| <= 1/2.
C22_AccuracyRoundedOrZero ==
    [][ IsCall(lastCall', "getAccuracy") =>
          LET c == lastCall'.key
              r == lastCall'.result
              stats == StatsOf(player, c)
              q == stats.questionsAnswered
              exactTimesQ == stats.correctAnswers * 10000
          IN  /\ ~lastCall'.threw
              /\ (c \notin DOMAIN player.operationStats \/ q = 0) => r = 0
              /\ q > 0 =>
                    /\ 2 * (r * q - exactTimesQ) <= q
                    /\ 2 * (exactTimesQ - r * q) <= q
                    /\ r >= 0
                    /\ r <= 10000
              /\ player' = player ]_vars

\* two of three answers correct: 66.67
C22_Witness ==
    /\ IsCall(lastCall, "getAccuracy")
    /\ StatsOf(player, lastCall.key).questionsAnswered = 3
    /\ StatsOf(player, lastCall.key).correctAnswers = 2
    /\ lastCall.result = 6667

\* C23: recordAnswer with a category that has no entry in operationStats does
\* not fail: a zeroed entry is created, the normal update is applied to it,
\* and every other category's entry is unchanged.
C23_MissingCategoryInitialised ==
    [][ (IsCall(lastCall', "recordAnswer")
           /\ lastCall'.key \notin DOMAIN player.operationStats) =>
          LET c == lastCall'.key
              pts == lastCall'.num
          IN  /\ ~lastCall'.threw
              /\ DOMAIN player'.operationStats = DOMAIN player.operationStats \cup {c}
              /\ player'.operationStats[c] =
                     [score |-> IF lastCall'.flag THEN pts ELSE 0,
                      questionsAnswered |-> 1,
                      correctAnswers |-> IF lastCall'.flag THEN 1 ELSE 0]
              /\ \A o \in DOMAIN player.operationStats :
                     player'.operationStats[o] = player.operationStats[o] ]_vars

\* the first Detective Mode answer of a player who has played additions
C23_Witness ==
    /\ IsCall(lastCall, "recordAnswer")
    /\ lastCall.key = "detective"
    /\ player.operationStats["detective"].questionsAnswered = 1
    /\ player.operationStats["detective"].score = 10
    /\ player.operationStats["addition"].questionsAnswered > 0

RECURSIVE SumScores(_, _)
SumScores(stats, categories) ==
    IF categories = {} THEN 0
    ELSE LET c == CHOOSE o \in categories : TRUE IN
         stats[c].score + SumScores(stats, categories \ {c})

\* C29: in every state reached from a fresh player by recordAnswer calls
\* with non-negative points, each category has 0 <= correctAnswers <=
\* questionsAnswered, and totalScore is the sum of the categories' scores.
C29_StatsConsistent ==
    /\ \A c \in DOMAIN player.operationStats :
          /\ 0 <= player.operationStats[c].correctAnswers
          /\ player.operationStats[c].correctAnswers
                 <= player.operationStats[c].questionsAnswered
    /\ player.totalScore =
           SumScores(player.operationStats, DOMAIN player.operationStats)

\* points in two categories and a miss
C29_Witness ==
    /\ "detective" \in DOMAIN player.operationStats
    /\ player.operationStats["detective"].score > 0
    /\ player.operationStats["addition"].score > 0
    /\ player.operationStats["addition"].correctAnswers
           < player.operationStats["addition"].questionsAnswered

----------------------------------------------------------------------------
(* Generated problems (OperationSpec) *)

\* C24: for each difficulty, both operands produced by Addition.generate
\* from that difficulty's settings lie in the documented range: 1..10 for
\* easy, 1..25 for medium and 10..99 for hard.
C24_AdditionOperandsInRange ==
    IsCall(lastCall, "Addition.generate") =>
        LET problem == lastCall.result
            documented == CASE lastCall.key = "easy" -> 1..10
                            [] lastCall.key = "medium" -> 1..25
                            [] lastCall.key = "hard" -> 10..99
                            [] OTHER -> 1..25
        IN  problem.num1 \in documented /\ problem.num2 \in documented

\* the value the missing part of a detective problem stands for
Operand(problem, operand, position) ==
    IF problem.missingPosition = position THEN problem.correctAnswer
    ELSE operand[1]

\* C25: every problem of DetectiveOperation.generate is a consistent
\* equation with positive values: exactly the operand named by
\* missingPosition is null ('result' leaves both set), putting correctAnswer
\* in the missing place makes num1 (+ or -) num2 = result true, and
\* result > 0 and correctAnswer > 0.
C25_DetectiveProblemConsistent ==
    IsCall(lastCall, "Detective.generate") =>
        LET problem == lastCall.result
            a == Operand(problem, problem.num1, "first")
            b == Operand(problem, problem.num2, "second")
            c == IF problem.missingPosition = "result"
                 THEN problem.correctAnswer ELSE problem.result
        IN  /\ problem.missingPosition \in {"first", "second", "result"}
            /\ (problem.num1 = NoNumber) <=> (problem.missingPosition = "first")
            /\ (problem.num2 = NoNumber) <=> (problem.missingPosition = "second")
            /\ problem.operation \in {"+", "-"}
            /\ problem.operation = "+" => a + b = c
            /\ problem.operation = "-" => a - b = c
            /\ c = problem.result
            /\ problem.result > 0
            /\ problem.correctAnswer > 0

\* the smallest easy subtraction, 6 - 5 = 1, with the minuend asked for
C25_Witness ==
    /\ IsCall(lastCall, "Detective.generate")
    /\ lastCall.key = "easy"
    /\ lastCall.result.operation = "-"
    /\ lastCall.result.missingPosition = "first"
    /\ lastCall.result.correctAnswer = 6
    /\ lastCall.result.num2 = Number(5)
    /\ lastCall.result.result = 1

----------------------------------------------------------------------------
(* Questions and attempts (AttemptSpec) *)

\* C26: between two generateQuestion calls, whatever checkAnswer submissions
\* are made, recordAnswer is invoked at most once for the question.
C26_ScoredAtMostOnce ==
    HasQuestion(currentQuestion) => Len(currentQuestion.recorded) <= 1

\* C27: a wrong submission after which the question has attempts left leaves
\* the player record and the storage as they were; a wrong submission is
\* recorded, with the streak reset to 0, only when it is the one that brings
\* attempts to maxAttempts.
C27_WrongSubmissions ==
    [][ (IsCall(lastCall', "checkAnswerWithAttempts") /\ ~lastCall'.flag) =>
          /\ hasAttemptsLeft(currentQuestion') =>
                /\ ~lastCall'.result.recorded
                /\ player' = player
                /\ storage' = storage
                /\ gameHistory' = gameHistory
          /\ lastCall'.result.recorded =>
                /\ currentQuestion'.attempts = maxAttempts
                /\ player'.streak = 0 ]_vars

----------------------------------------------------------------------------
(* Achievements unlocked once (AchSpec) *)

EventIds(events) == [i \in 1..Len(events) |-> events[i].achievement]

\* C28: over answers and checkAchievements calls, no achievement id is
\* announced by achievementUnlocked twice, and a checkAchievements call adds
\* to totalScore the bonus of the ids it announces, none of them announced
\* before, and nothing else.
C28_UnlockedOnce ==
    [][ /\ NoDuplicates(EventIds(log'))
        /\ IsCall(lastCall', "checkAchievements") =>
              /\ \A i \in 1..Len(emitted') : ~Includes(EventIds(log), emitted'[i].achievement)
              /\ player'.totalScore =
                     player.totalScore + SumPoints(EventIds(emitted')) ]_vars

\* super_bronze was announced by an earlier call, the player still meets its
\* requirement, and the call just made announced nothing
C28_Witness ==
    /\ IsCall(lastCall, "checkAchievements")
    /\ lastCall.result = <<>>
    /\ EventIds(log) = <<"super_bronze">>
    /\ isUnlocked(AchievementById("super_bronze"), player)

----------------------------------------------------------------------------
(* Game history (HistorySpec) *)

\* C30: the stored game history never holds more than 100 sessions; a save
\* that goes through puts its session last, after the sessions that were
\* there in their order, and drops the oldest one when there were 100; a
\* save that fails leaves the history as it was.
C30_HistoryKeepsMostRecent ==
    [][ IsCall(lastCall', "saveGameHistory") =>
          LET before == getGameHistory(gameHistory)
              after == getGameHistory(gameHistory')
          IN  /\ Len(after) <= HistoryLimit
              /\ after = IF ~lastCall'.flag THEN before
                         ELSE IF Len(before) < HistoryLimit
                         THEN Append(before, lastCall'.result)
                         ELSE Append(Tail(before), lastCall'.result) ]_vars

\* a save on a full history: 100 sessions are stored, the one just saved is
\* the last and the first session ever saved is gone
C30_Witness ==
    /\ IsCall(lastCall, "saveGameHistory")
    /\ lastCall.flag
    /\ Len(getGameHistory(gameHistory)) = HistoryLimit
    /\ getGameHistory(gameHistory)[HistoryLimit] = lastCall.result
    /\ getGameHistory(gameHistory)[1].timestamp > 1

====
